---- MODULE Spec2Model ----
(***************************************************************************)
(* Etsy listing proxy: the OAuth/PKCE token lifecycle and the listing      *)
(* creation pipeline of the Express server, in its three versions:         *)
(*   "basic" : src/server.js              (no PKCE, four routes)           *)
(*   "pkce"  : src/unnamed/part_000:821.. (PKCE, getAccessTokenOr401)      *)
(*   "full"  : src/unnamed/part_000:1..   (PKCE, getValidAccessToken,      *)
(*             validation, image retry, inventory, video)                  *)
(* A request is a coroutine: every `await` of an upstream call is a        *)
(* position (pc) at which the handler waits for the upstream's reply; the  *)
(* code between two awaits runs atomically, as on the Node event loop.     *)
(***************************************************************************)
EXTENDS Integers, Sequences, FiniteSets, TLC

VARIABLES
  version,    \* which of the three server files the process runs
  videoExists,\* fs.existsSync(video.mp4)
  tokenStore, \* the `etsy` record of the token file (readTokens / saveTokens)
  pkceStore,  \* pkceStore: state -> code_verifier
  tmpFiles,   \* the files present in tmp_images
  reqs        \* the requests being handled: slot -> handler frame

vars == <<version, videoExists, tokenStore, pkceStore, tmpFiles, reqs>>

----------------------------------------------------------------------------
(* Values *)

None == "none"

Versions == {"basic", "pkce", "full"}

\* the request slots of the sequential specification: one request at a time
Slots == {1}

\* values crypto.randomBytes can give a state / a verifier / a temp file name
States == {"s1", "s2"}
Verifiers == {"v1", "v2"}
TmpNames == {"t1", "t2"}

AccessTokens == {"a1", "a2"}
RefreshTokens == {"r1"}

\* `${access_token}` of a pending Promise: "[object Promise]"
PromiseString == "promise"

\* readTokens() when the file is missing or holds no etsy record
NoTokens == [access_token |-> None, refresh_token |-> None]

\* the token records the upstream token endpoint can answer with
TokenResponses ==
  [access_token : AccessTokens, refresh_token : RefreshTokens \cup {None}]

\* upstream results: Pending = none yet, NoResp = the call failed without
\* an HTTP response (err.response undefined), otherwise the HTTP status
Pending == -1
NoResp == 0
OkStatus == 200
ErrStatuses == {404, 503}

OkReply == [res |-> OkStatus, msg |-> "ok"]
NoIdReply == [res |-> OkStatus, msg |-> "noid"]
ErrReplies ==
  {[res |-> s, msg |-> "other"] : s \in ErrStatuses}
    \cup {[res |-> NoResp, msg |-> "other"]}
InvalidTokenReplies ==
  {[res |-> 401, msg |-> "invalid_token"], [res |-> 401, msg |-> "expired"]}
LockedReply == [res |-> 409, msg |-> "is being edited by another process"]

ProbeReplies == {OkReply} \cup InvalidTokenReplies \cup ErrReplies
DraftReplies == {OkReply, NoIdReply} \cup ErrReplies
ImageReplies == {OkReply, NoIdReply, LockedReply} \cup ErrReplies
PlainReplies == {OkReply} \cup ErrReplies

\* maxRetries = 3, the default parameter of uploadImageWithRetry
maxRetries == 3

\* the longest image_files list of a request body
MaxImages == 2

----------------------------------------------------------------------------
(* PKCE helpers *)

\* generateCodeChallenge: base64url(sha256(verifier)), one-way and injective
\* on the verifiers of the model
generateCodeChallenge(verifier) ==
  CASE verifier = "v1" -> "c1"
    [] verifier = "v2" -> "c2"
    [] OTHER -> None

----------------------------------------------------------------------------
(* Request bodies of POST /listings, each field by the class of its value *)


\* the enumeration with the default when_made of the other versions
WhenMadeValuesLegacy ==
  {"made_to_order", "2020_2023", "2020_2024", "2010_2019", "1990s"}

WhenMadeValues ==
  {"made_to_order", "2020_2024", "2010_2019", "2006_2009", "before_2006",
   "2000_2005", "1990s", "1980s", "1970s", "1960s", "1950s", "1940s",
   "1930s", "1920s", "1910s", "1900s", "1800s", "1700s", "before_1700"}
WhoMadeValues == {"i_did", "someone_else", "collective"}
TypeValues == {"physical", "download", "both"}
WeightUnits == {"oz", "lb", "g", "kg"}
DimensionUnits == {"in", "ft", "mm", "cm", "m", "yd", "inches"}

\* a body that passes the validation, without images
GoodBody ==
  [title |-> "text", description |-> "text", price |-> "pos",
   quantity |-> "posint", who_made |-> "i_did", when_made |-> "made_to_order",
   sku |-> "sku", taxonomy_id |-> "pos", type |-> "undef",
   item_weight_unit |-> "undef", item_dimensions_unit |-> "undef",
   item_weight |-> "undef", item_length |-> "undef", item_width |-> "undef",
   item_height |-> "undef", inventory |-> "undef", image_files |-> <<>>]

\* image_files: each entry a remote URL or a local path
ImageLists ==
  UNION {[1..n -> {"url", "file"}] : n \in 0..MaxImages}

\* the bodies the sequential specification sends
Bodies ==
  {[GoodBody EXCEPT !.image_files = imgs] : imgs \in ImageLists}
    \cup {[GoodBody EXCEPT !.title = "undef", !.description = "blank"]}

\* validPositiveNumber: typeof val === "number" && val > 0
validPositiveNumber(val) == val = "pos"

ErrIf(cond, text) == IF cond THEN <<text>> ELSE <<>>

\* the errors list of POST /listings (full version), in the order pushed
Validate(b) ==
  ErrIf(b.title # "text", "title is required")
  \o ErrIf(b.description # "text", "description is required")
  \o ErrIf(b.price # "pos", "price must be a positive number")
  \o ErrIf(b.quantity # "posint", "quantity must be a positive integer")
  \o ErrIf(b.who_made \notin WhoMadeValues,
           "who_made must be one of: i_did, someone_else, collective")
  \o ErrIf(b.when_made \notin WhenMadeValues, "Invalid when_made value")
  \o ErrIf(b.sku = "undef", "Sku required")
  \o ErrIf(b.taxonomy_id # "pos", "taxonomy_id must be a positive integer")
  \o ErrIf(b.type # "undef" /\ b.type \notin TypeValues,
           "type must be one of: physical, download, both")
  \o ErrIf(b.item_weight_unit # "undef" /\ b.item_weight_unit \notin WeightUnits,
           "item_weight_unit must be one of: oz, lb, g, kg")
  \o ErrIf(b.item_dimensions_unit # "undef"
             /\ b.item_dimensions_unit \notin DimensionUnits,
           "item_dimensions_unit must be one of: in, ft, mm, cm, m, yd, inches")
  \o (IF b.type = "physical"
      THEN ErrIf(b.item_weight # "undef" /\ ~validPositiveNumber(b.item_weight),
                 "item_weight must be a positive number if set")
           \o ErrIf(b.item_length # "undef" /\ ~validPositiveNumber(b.item_length),
                    "item_length must be a positive number if set")
           \o ErrIf(b.item_width # "undef" /\ ~validPositiveNumber(b.item_width),
                    "item_width must be a positive number if set")
           \o ErrIf(b.item_height # "undef" /\ ~validPositiveNumber(b.item_height),
                    "item_height must be a positive number if set")
      ELSE <<>>)

\* the physical item fields of a body
DimensionFields == {"item_weight", "item_length", "item_width", "item_height"}
UnitFields == {"item_weight_unit", "item_dimensions_unit"}


\* a payload built without looking at the type
PayloadAnyType(b) ==
  [f \in DimensionFields \cup UnitFields |-> b[f]]

NoPayload == [f \in DimensionFields \cup UnitFields |-> "undef"]

\* the physical item fields of the draft payload (full version): set only if
\* type === "physical", a dimension only if validPositiveNumber, a unit only
\* if given; absent ("undef") otherwise
Payload(b) ==
  [f \in DimensionFields \cup UnitFields |->
     IF b.type # "physical" THEN "undef"
     ELSE IF f \in DimensionFields
     THEN (IF validPositiveNumber(b[f]) THEN b[f] ELSE "undef")
     ELSE b[f]]

\* the bodies of the validation specification: every combination of these
\* values of the validated fields
ValidationBodies ==
  {[GoodBody EXCEPT !.title = t, !.description = d, !.when_made = w,
                    !.type = ty, !.item_weight = iw, !.item_length = il,
                    !.item_height = ih, !.item_weight_unit = u] :
     t \in {"text", "undef"}, d \in {"text", "blank"},
     w \in {"made_to_order", "1990s", "undef", "2020_2023"},
     ty \in {"undef", "physical", "download", "digital"},
     iw \in {"undef", "pos", "nonpos", "nonnum"},
     il \in {"undef", "nonpos"}, ih \in {"undef", "pos"},
     u \in {"undef", "oz"}}

----------------------------------------------------------------------------
(* Requests *)

\* the routes of each version
Routes(v) ==
  CASE v = "basic" -> {"login", "callback", "refresh", "listings"}
    [] v = "pkce" -> {"login", "callback", "refresh", "listings", "tokens",
                      "me", "shops_listings", "taxonomy", "shipping_profiles"}
    [] OTHER -> {"login", "callback", "refresh", "listings", "tokens", "me",
                 "return_policies", "shops_listings", "taxonomy",
                 "shipping_profiles"}

\* the routes that forward one call to the Etsy API
ProxyRoutes ==
  {"me", "return_policies", "shops_listings", "taxonomy", "shipping_profiles"}

\* req.query of /auth/callback and req.body of /listings
NoQuery == [error |-> FALSE, code |-> FALSE, state |-> None, body |-> GoodBody]
CallbackQueries ==
  {[NoQuery EXCEPT !.error = e, !.code = c, !.state = s] :
     e \in BOOLEAN, c \in BOOLEAN, s \in States \cup {None}}
ListingQueries == {[NoQuery EXCEPT !.body = b] : b \in Bodies}

Queries(kind) ==
  CASE kind = "callback" -> CallbackQueries
    [] kind = "listings" -> ListingQueries
    [] OTHER -> {NoQuery}

Idle ==
  [kind |-> None, q |-> NoQuery, pc |-> "idle", gvpc |-> "none",
   tok |-> None, gvtok |-> None, verifier |-> None, challenge |-> None,
   status |-> 0, sends |-> 0, called |-> {}, caught |-> Pending,
   gvlast |-> Pending,
   errors |-> <<>>, payload |-> NoPayload, listing |-> "none", i |-> 0, attempt |-> 0,
   uploads |-> 0, tempFile |-> None, written |-> {}, outcome |-> "none",
   ret |-> 0, ids |-> <<>>, inventory |-> "null", video |-> "null",
   failed |-> {}, tokens |-> NoTokens, unhandled |-> FALSE]

\* the handler has returned and no coroutine of the request is left
Finished(rec) == rec.pc \in {"idle", "done"} /\ rec.gvpc \in {"none", "done"}

\* res.status(s).send / res.json: the first send answers the client, a later
\* one throws ERR_HTTP_HEADERS_SENT
Send(rec, s) ==
  IF rec.status = 0
  THEN [rec EXCEPT !.status = s, !.sends = 1]
  ELSE [rec EXCEPT !.sends = @ + 1]

Return(rec) == [rec EXCEPT !.pc = "done"]

\* the handler sends its response and returns; a send that throws outside a
\* try block rejects the async handler, which nothing catches
Respond(rec, s) ==
  Return([Send(rec, s) EXCEPT !.unhandled = @ \/ rec.status # 0])

\* err.response?.status || 500
StatusOf(reply) == IF reply.res = NoResp THEN 500 ELSE reply.res

\* an upstream call is sent: its endpoint and the credential it carries (the
\* bearer token; for the token endpoint the verifier or refresh token), and
\* the handler waits for the reply at pc
Sent(rec, ep, cred) == [rec EXCEPT !.called = @ \cup {[ep |-> ep, tok |-> cred]}]
Call(rec, ep, cred, pc) == [Sent(rec, ep, cred) EXCEPT !.pc = pc]

----------------------------------------------------------------------------
(* State *)

Init ==
  /\ version \in Versions
  /\ videoExists \in BOOLEAN
  /\ tokenStore = NoTokens
  /\ pkceStore = [s \in States |-> None]
  /\ tmpFiles = {}
  /\ reqs = [r \in Slots |-> Idle]

\* a request arrives on a free slot
Arrive(r) ==
  /\ Finished(reqs[r])
  /\ \E kind \in Routes(version) : \E q \in Queries(kind) :
       reqs' = [reqs EXCEPT ![r] = [Idle EXCEPT !.kind = kind, !.q = q,
                                                !.pc = "recv"]]
  /\ UNCHANGED <<version, videoExists, tokenStore, pkceStore, tmpFiles>>

----------------------------------------------------------------------------
(* GET /auth/login *)


\* a session map with one verifier for all states
StoreVerifierShared(store, state, verifier) == [s \in States |-> verifier]

\* pkceStore[state] = { code_verifier, createdAt }
StoreVerifier(store, state, verifier) == [store EXCEPT ![state] = verifier]

\* basic: a redirect with a random state; pkce, full: a verifier is drawn,
\* stored under a random state, and its challenge goes into the redirect
Login(r) ==
  /\ reqs[r].pc = "recv" /\ reqs[r].kind = "login"
  /\ \E state \in States : \E code_verifier \in Verifiers :
       LET rec == [reqs[r] EXCEPT !.q.state = state] IN
       IF version = "basic"
       THEN /\ reqs' = [reqs EXCEPT ![r] = Respond(rec, 302)]
            /\ UNCHANGED pkceStore
       ELSE /\ pkceStore' = StoreVerifier(pkceStore, state, code_verifier)
            /\ reqs' = [reqs EXCEPT ![r] =
                 Respond([rec EXCEPT !.verifier = code_verifier,
                            !.challenge = generateCodeChallenge(code_verifier)],
                         302)]
  /\ UNCHANGED <<version, videoExists, tokenStore, tmpFiles>>

----------------------------------------------------------------------------
(* GET /auth/callback *)


\* a callback that does not look the state up in the PKCE session map
CallbackRejectNoLookup(v, q, store) ==
  IF q.error THEN 400
  ELSE IF v = "basic" THEN (IF ~q.code THEN 400 ELSE 0)
  ELSE IF ~q.code \/ q.state = None THEN 400
  ELSE 0

\* the early returns of the callback: the status it rejects the request
\* with, or 0 when it goes on to the token exchange
CallbackReject(v, q, store) ==
  IF q.error THEN 400
  ELSE IF v = "basic" THEN (IF ~q.code THEN 400 ELSE 0)
  ELSE IF ~q.code \/ q.state = None THEN 400
  ELSE IF store[q.state] = None THEN 400
  ELSE 0


\* a callback that removes the entries of the other states and keeps its own
ConsumeEntryOthers(store, state) ==
  [s \in States |-> IF s = state THEN store[s] ELSE None]

\* a callback that leaves the entry in the session map
ConsumeEntryKeep(store, state) == store

\* delete pkceStore[state], before the exchange is sent
ConsumeEntry(store, state) == [store EXCEPT ![state] = None]


\* a write that changes the refresh token only
SaveTokensKeepAccess(store, tokens) ==
  [tokens EXCEPT !.access_token =
     IF store.access_token = None THEN @ ELSE store.access_token]

\* a write that keeps the stored refresh token when the answer has none
SaveTokensMerge(store, tokens) ==
  [tokens EXCEPT !.refresh_token =
     IF @ = None THEN store.refresh_token ELSE @]

\* store.etsy = tokens; saveTokens(store)
SaveTokens(store, tokens) == tokens

\* the catch blocks of /auth/callback and /token/refresh: always 500
CallbackErrorStatus(reply) == 500
RefreshErrorStatus(reply) == 500

Callback(r) ==
  /\ reqs[r].pc = "recv" /\ reqs[r].kind = "callback"
  /\ LET rec == reqs[r]
         reject == CallbackReject(version, rec.q, pkceStore) IN
     IF reject # 0
     THEN /\ reqs' = [reqs EXCEPT ![r] = Respond(rec, reject)]
          /\ UNCHANGED pkceStore
     ELSE IF version = "basic"
     THEN /\ reqs' = [reqs EXCEPT ![r] = Call(rec, "token", None, "exchange")]
          /\ UNCHANGED pkceStore
     ELSE /\ reqs' = [reqs EXCEPT ![r] =
               Call([rec EXCEPT !.verifier = pkceStore[rec.q.state]],
                    "token", pkceStore[rec.q.state], "exchange")]
          /\ pkceStore' = ConsumeEntry(pkceStore, rec.q.state)
  /\ UNCHANGED <<version, videoExists, tokenStore, tmpFiles>>

\* the upstream answers the token exchange
CallbackReply(r) ==
  /\ reqs[r].pc = "exchange"
  /\ \/ \E tokens \in TokenResponses :
          /\ tokenStore' = SaveTokens(tokenStore, tokens)
          /\ reqs' = [reqs EXCEPT ![r] =
               Respond([reqs[r] EXCEPT !.tokens = tokens], 200)]
     \/ \E reply \in ErrReplies :
          /\ reqs' = [reqs EXCEPT ![r] =
               Respond([reqs[r] EXCEPT !.caught = reply.res],
                       CallbackErrorStatus(reply))]
          /\ UNCHANGED tokenStore
  /\ UNCHANGED <<version, videoExists, pkceStore, tmpFiles>>

----------------------------------------------------------------------------
(* POST /token/refresh *)

TokenRefresh(r) ==
  /\ reqs[r].pc = "recv" /\ reqs[r].kind = "refresh"
  /\ reqs' = [reqs EXCEPT ![r] =
       IF tokenStore.refresh_token = None
       THEN Respond(reqs[r], 400)
       ELSE Call(reqs[r], "token", tokenStore.refresh_token, "refresh")]
  /\ UNCHANGED <<version, videoExists, tokenStore, pkceStore, tmpFiles>>

TokenRefreshReply(r) ==
  /\ reqs[r].pc = "refresh"
  /\ \/ \E tokens \in TokenResponses :
          /\ tokenStore' = SaveTokens(tokenStore, tokens)
          /\ reqs' = [reqs EXCEPT ![r] =
               Respond([reqs[r] EXCEPT !.tokens = tokens], 200)]
     \/ \E reply \in ErrReplies :
          /\ reqs' = [reqs EXCEPT ![r] =
               Respond([reqs[r] EXCEPT !.caught = reply.res],
                       RefreshErrorStatus(reply))]
          /\ UNCHANGED tokenStore
  /\ UNCHANGED <<version, videoExists, pkceStore, tmpFiles>>

----------------------------------------------------------------------------
(* GET /tokens *)

Tokens(r) ==
  /\ reqs[r].pc = "recv" /\ reqs[r].kind = "tokens"
  /\ reqs' = [reqs EXCEPT ![r] = Respond(reqs[r], 200)]
  /\ UNCHANGED <<version, videoExists, tokenStore, pkceStore, tmpFiles>>

----------------------------------------------------------------------------
(* getAccessTokenOr401 and getValidAccessToken *)

\* the full version obtains the token of these routes with
\* getValidAccessToken; only POST /listings awaits the promise it returns
UsesValidToken(v, kind) ==
  v = "full" /\ kind \in {"listings", "me", "return_policies"}
AwaitsToken(kind) == kind = "listings"

\* the error of the probe that makes getValidAccessToken refresh
IsInvalidToken(reply) ==
  reply.res # NoResp /\ reply.msg \in {"invalid_token", "expired"}


\* a handler that goes on with the token it read before the refresh
AfterTokenStale(rec, access_token) ==
  LET errors == Validate(rec.q.body)
      got == [rec EXCEPT !.tok = rec.gvtok] IN
  IF errors # <<>>
  THEN Respond([got EXCEPT !.errors = errors], 400)
  ELSE Call([got EXCEPT !.payload = Payload(rec.q.body)],
            "draft", rec.gvtok, "draft")

\* a validation that fails fast: only the first violation is reported
AfterTokenFailFast(rec, access_token) ==
  LET errors == Validate(rec.q.body)
      got == [rec EXCEPT !.tok = access_token] IN
  IF errors # <<>>
  THEN Respond([got EXCEPT !.errors = <<Head(errors)>>], 400)
  ELSE Call([got EXCEPT !.payload = Payload(rec.q.body)],
            "draft", access_token, "draft")

\* the first lines of POST /listings (full version), once the token is there:
\* validation, then the draft-creation call
AfterToken(rec, access_token) ==
  LET errors == Validate(rec.q.body)
      got == [rec EXCEPT !.tok = access_token] IN
  IF errors # <<>>
  THEN Respond([got EXCEPT !.errors = errors], 400)
  ELSE Call([got EXCEPT !.payload = Payload(rec.q.body)],
            "draft", access_token, "draft")

\* getValidAccessToken up to its first await: getAccessTokenOr401 answers 401
\* and gives null, or the probe GET users/me is sent with the stored token
GvStart(rec, store) ==
  IF store.access_token = None
  THEN [Send(rec, 401) EXCEPT !.gvpc = "done"]
  ELSE [Sent(rec, "probe", store.access_token)
          EXCEPT !.gvtok = store.access_token, !.gvpc = "probe"]

\* getValidAccessToken returns value (None for null); an awaiting handler
\* goes on with it
GvReturn(rec, value) ==
  LET done == [rec EXCEPT !.gvpc = "done"] IN
  IF ~AwaitsToken(rec.kind) THEN done
  ELSE IF value = None THEN Return(done)
  ELSE AfterToken(done, value)

\* getValidAccessToken rethrows the probe's error: the promise rejects, and
\* so does an awaiting handler, outside any try block
GvThrow(rec) ==
  LET done == [rec EXCEPT !.gvpc = "done", !.unhandled = TRUE] IN
  IF AwaitsToken(rec.kind) THEN Return(done) ELSE done

\* the probe's answer
GvProbeReply(r) ==
  /\ reqs[r].gvpc = "probe"
  /\ \E reply \in ProbeReplies :
       LET rec == [reqs[r] EXCEPT !.gvlast = reply.res] IN
       reqs' = [reqs EXCEPT ![r] =
         IF reply.res = OkStatus THEN GvReturn(rec, rec.gvtok)
         ELSE IF IsInvalidToken(reply)
         THEN (IF tokenStore.refresh_token = None
               THEN GvReturn(rec, None)
               ELSE [Sent(rec, "token", tokenStore.refresh_token)
                       EXCEPT !.gvpc = "refresh"])
         ELSE GvThrow(rec)]
  /\ UNCHANGED <<version, videoExists, tokenStore, pkceStore, tmpFiles>>

\* the answer to the refresh call of getValidAccessToken
GvRefreshReply(r) ==
  /\ reqs[r].gvpc = "refresh"
  /\ \/ \E tokens \in TokenResponses :
          /\ tokenStore' = SaveTokens(tokenStore, tokens)
          /\ reqs' = [reqs EXCEPT ![r] =
               GvReturn([reqs[r] EXCEPT !.gvlast = OkStatus,
                                        !.tokens = tokens],
                        tokens.access_token)]
     \/ \E reply \in ErrReplies :
          /\ reqs' = [reqs EXCEPT ![r] =
               GvReturn([Send(reqs[r], 401) EXCEPT
                           !.gvlast = reply.res,
                           !.unhandled = @ \/ reqs[r].status # 0],
                        None)]
          /\ UNCHANGED tokenStore
  /\ UNCHANGED <<version, videoExists, pkceStore, tmpFiles>>

----------------------------------------------------------------------------
(* The proxy routes: /me, /return-policies, /shops/listings,               *)
(* /shops/shipping-profiles, /etsy/seller-taxonomy/nodes                   *)

\* the status the catch block of a proxy route answers with
ProxyErrorStatus(kind, reply) ==
  IF kind = "taxonomy" THEN 500 ELSE StatusOf(reply)

\* a send inside the try block of a handler: when it throws, the catch block
\* sends 500 (the error has no response), and that throws out of the handler
SendInTry(rec, s) ==
  IF rec.status = 0 THEN Respond(rec, s) ELSE Respond(Send(rec, s), 500)

Proxy(r) ==
  /\ reqs[r].pc = "recv" /\ reqs[r].kind \in ProxyRoutes
  /\ LET rec == reqs[r] IN
     reqs' = [reqs EXCEPT ![r] =
       IF rec.kind = "taxonomy" THEN Call(rec, rec.kind, None, "proxy")
       ELSE IF UsesValidToken(version, rec.kind)
       THEN \* access_token is the promise itself, which is truthy
            Call([GvStart(rec, tokenStore) EXCEPT !.tok = PromiseString],
                 rec.kind, PromiseString, "proxy")
       ELSE IF tokenStore.access_token = None THEN Respond(rec, 401)
       ELSE Call([rec EXCEPT !.tok = tokenStore.access_token],
                 rec.kind, tokenStore.access_token, "proxy")]
  /\ UNCHANGED <<version, videoExists, tokenStore, pkceStore, tmpFiles>>

ProxyReply(r) ==
  /\ reqs[r].pc = "proxy"
  /\ \E reply \in PlainReplies :
       LET rec == reqs[r] IN
       reqs' = [reqs EXCEPT ![r] =
         IF reply.res = OkStatus THEN SendInTry(rec, 200)
         ELSE Respond([rec EXCEPT !.caught = reply.res],
                      ProxyErrorStatus(rec.kind, reply))]
  /\ UNCHANGED <<version, videoExists, tokenStore, pkceStore, tmpFiles>>

----------------------------------------------------------------------------
(* POST /listings *)


\* a catch block that answers 500 whatever the upstream status
ListingsErrorStatusFixed(reply) == 500

\* the status the catch block of POST /listings answers with
ListingsErrorStatus(reply) == StatusOf(reply)

\* isUrl: /^https?:\/\//i
isUrl(entry) == entry = "url"


\* a retry that is not bounded by maxRetries
ShouldRetryUnbounded(msg, attempt) ==
  msg = "is being edited by another process"

\* the catch block of uploadImageWithRetry: another attempt is made for the
\* "listing locked" error while attempt < maxRetries - 1
ShouldRetry(msg, attempt) ==
  msg = "is being edited by another process" /\ attempt < maxRetries - 1


\* a cleanup that unlinks nothing
CleanupNone(files, tempFile) == files

\* if (tempFile && fs.existsSync(tempFile)) fs.unlinkSync(tempFile)
Cleanup(files, tempFile) ==
  IF tempFile # None /\ tempFile \in files THEN files \ {tempFile} ELSE files

\* crypto.randomBytes(8) for a temp file: a name no file of tmp_images has
\* (any name once all are taken)
RandomNames(files) ==
  IF TmpNames \ files = {} THEN TmpNames
  ELSE {CHOOSE name \in TmpNames \ files : TRUE}

\* res.json({ ok: true, listing, listing_images_id, inventory, video })
RespondOk(rec) == SendInTry(rec, 200)

\* the inventory update is attempted when the listing has an id and sku or
\* inventory was given
InventoryWanted(rec) ==
  rec.listing = "id"
    /\ (rec.q.body.sku # "undef" \/ rec.q.body.inventory # "undef")

InventoryStep(rec) ==
  IF InventoryWanted(rec)
  THEN Call(rec, "inventory", rec.tok, "inventory")
  ELSE RespondOk(rec)


\* a video upload placed after the try block of the inventory update
VideoWantedAlways(inventoryOk, exists) == exists

\* the video upload sits inside the try block of the inventory update,
\* after its await: it is reached only when the update succeeded
VideoWanted(inventoryOk, exists) == inventoryOk /\ exists


\* an inventory failure that reaches the outer catch block of the handler
InventoryFailedThrows(rec, reply) ==
  Respond([rec EXCEPT !.failed = @ \cup {"inventory"},
                      !.caught = reply.res], StatusOf(reply))

\* the catch block of the inventory update logs the error and goes on to
\* the success response
InventoryFailed(rec, reply) ==
  RespondOk([rec EXCEPT !.failed = @ \cup {"inventory"}])

\* the catch block of the video upload: videoUploadResult = { error }
VideoFailed(rec, reply) ==
  RespondOk([rec EXCEPT !.video = "error", !.failed = @ \cup {"video"}])

\* the POST of one attempt of uploadImageWithRetry
Upload(rec) == Call([rec EXCEPT !.uploads = @ + 1], "image", rec.tok, "image")

\* one turn of the while loop of uploadImageWithRetry
BeginAttempt(rec) ==
  IF rec.attempt < maxRetries
  THEN (IF isUrl(rec.q.body.image_files[rec.i])
        THEN Call(rec, "download", None, "download")
        ELSE Upload(rec))
  ELSE [rec EXCEPT !.pc = "uploaded", !.ret = 0]

\* uploadImageWithRetry(image_files[i], i) is entered
BeginImage(rec, i) ==
  BeginAttempt([rec EXCEPT !.i = i, !.attempt = 0, !.uploads = 0,
                           !.tempFile = None, !.written = {},
                           !.outcome = "none", !.ret = 0])

\* uploadImageWithRetry returns id (0 for null) to the loop that awaits it
ReturnImage(rec, id) == [rec EXCEPT !.pc = "uploaded", !.ret = id]

\* the catch block of uploadImageWithRetry
ImageFailed(rec, msg) ==
  LET caught == [rec EXCEPT !.outcome = msg] IN
  IF ShouldRetry(msg, rec.attempt)
  THEN BeginAttempt([caught EXCEPT !.attempt = @ + 1])
  ELSE ReturnImage(caught, 0)

\* after the draft was created: images, when image_files is a non-empty
\* array and the listing has an id
ImagesStep(rec) ==
  IF Len(rec.q.body.image_files) > 0 /\ rec.listing = "id"
  THEN BeginImage(rec, 1)
  ELSE InventoryStep(rec)

\* a failed draft call that is logged, after which the pipeline goes on
DraftFailedGoesOn(rec, reply) ==
  ImagesStep([rec EXCEPT !.caught = reply.res, !.listing = "id"])

\* the draft call throws inside the try block of the handler: the outer
\* catch block answers, and nothing after the call runs
DraftFailed(rec, reply) ==
  Respond([rec EXCEPT !.caught = reply.res], ListingsErrorStatus(reply))

Listings(r) ==
  /\ reqs[r].pc = "recv" /\ reqs[r].kind = "listings"
  /\ LET rec == reqs[r] IN
     reqs' = [reqs EXCEPT ![r] =
       IF UsesValidToken(version, rec.kind)
       THEN LET started == GvStart(rec, tokenStore) IN
            IF started.gvpc = "done" THEN Return(started)
            ELSE [started EXCEPT !.pc = "gv"]
       ELSE IF tokenStore.access_token = None THEN Respond(rec, 401)
       ELSE Call([rec EXCEPT !.tok = tokenStore.access_token],
                 "draft", tokenStore.access_token, "draft")]
  /\ UNCHANGED <<version, videoExists, tokenStore, pkceStore, tmpFiles>>

DraftReply(r) ==
  /\ reqs[r].pc = "draft"
  /\ \E reply \in DraftReplies :
       LET rec == reqs[r] IN
       reqs' = [reqs EXCEPT ![r] =
         IF reply.res # OkStatus
         THEN DraftFailed(rec, reply)
         ELSE LET made == [rec EXCEPT !.listing =
                             IF reply = OkReply THEN "id" ELSE "noid"] IN
              IF version = "full" THEN ImagesStep(made) ELSE RespondOk(made)]
  /\ UNCHANGED <<version, videoExists, tokenStore, pkceStore, tmpFiles>>

\* the download of a remote image: on success it is written to a temp file
\* with a random name, and the upload is sent; on failure the catch and the
\* finally block run
DownloadReply(r) ==
  /\ reqs[r].pc = "download"
  /\ \/ \E name \in RandomNames(tmpFiles) :
          /\ tmpFiles' = tmpFiles \cup {name}
          /\ reqs' = [reqs EXCEPT ![r] =
               Upload([reqs[r] EXCEPT !.tempFile = name,
                                      !.written = @ \cup {name}])]
     \/ \E reply \in ErrReplies :
          /\ tmpFiles' = Cleanup(tmpFiles, reqs[r].tempFile)
          /\ reqs' = [reqs EXCEPT ![r] = ImageFailed(reqs[r], reply.msg)]
  /\ UNCHANGED <<version, videoExists, tokenStore, pkceStore>>

\* the answer to an image upload: an id, a body without an id, or an error;
\* every path runs the cleanup of the temp file
ImageReply(r) ==
  /\ reqs[r].pc = "image"
  /\ \E reply \in ImageReplies :
       LET rec == reqs[r] IN
       /\ tmpFiles' = Cleanup(tmpFiles, rec.tempFile)
       /\ reqs' = [reqs EXCEPT ![r] =
            IF reply = OkReply
            THEN ReturnImage([rec EXCEPT !.outcome = "id"], rec.i)
            ELSE IF reply = NoIdReply
            THEN ReturnImage([rec EXCEPT !.outcome = "noid"], 0)
            ELSE ImageFailed(rec, reply.msg)]
  /\ UNCHANGED <<version, videoExists, tokenStore, pkceStore>>


\* a loop that goes to the inventory update after its first entry
NextEntryFirstOnly(rec, i) == InventoryStep([rec EXCEPT !.i = 0])

\* for (let i = 0; i < image_files.length; i++): the entry after entry i, or
\* the inventory update after the last
NextEntry(rec, i) ==
  IF i < Len(rec.q.body.image_files)
  THEN BeginImage(rec, i + 1)
  ELSE InventoryStep([rec EXCEPT !.i = 0])

\* the sequential loop resumes after `await uploadImageWithRetry`: it pushes
\* the id, and goes to the next entry or, after the last, to the inventory
LoopNext(r) ==
  /\ reqs[r].pc = "uploaded"
  /\ LET rec == reqs[r]
         out == [rec EXCEPT
                   !.ids = IF rec.ret # 0 THEN Append(@, rec.ret) ELSE @,
                   !.failed = IF rec.outcome \in {"id", "noid"} THEN @
                              ELSE @ \cup {"image"},
                   !.ret = 0, !.outcome = "none", !.tempFile = None,
                   !.written = {}, !.attempt = 0, !.uploads = 0] IN
     reqs' = [reqs EXCEPT ![r] = NextEntry(out, rec.i)]
  /\ UNCHANGED <<version, videoExists, tokenStore, pkceStore, tmpFiles>>

InventoryReply(r) ==
  /\ reqs[r].pc = "inventory"
  /\ \E reply \in PlainReplies :
       LET rec == reqs[r]
           updated == [rec EXCEPT !.inventory = "data"] IN
       reqs' = [reqs EXCEPT ![r] =
         IF VideoWanted(reply.res = OkStatus, videoExists)
         THEN Call(IF reply.res = OkStatus THEN updated
                   ELSE [rec EXCEPT !.failed = @ \cup {"inventory"}],
                   "video", rec.tok, "video")
         ELSE IF reply.res = OkStatus THEN RespondOk(updated)
         ELSE InventoryFailed(rec, reply)]
  /\ UNCHANGED <<version, videoExists, tokenStore, pkceStore, tmpFiles>>

VideoReply(r) ==
  /\ reqs[r].pc = "video"
  /\ \E reply \in PlainReplies :
       LET rec == reqs[r] IN
       reqs' = [reqs EXCEPT ![r] =
         IF reply.res = OkStatus THEN RespondOk([rec EXCEPT !.video = "data"])
         ELSE VideoFailed(rec, reply)]
  /\ UNCHANGED <<version, videoExists, tokenStore, pkceStore, tmpFiles>>

----------------------------------------------------------------------------
(* Specification *)

Next ==
  \/ \E r \in Slots : Arrive(r)
  \/ \E r \in Slots : Login(r)
  \/ \E r \in Slots : Callback(r)
  \/ \E r \in Slots : CallbackReply(r)
  \/ \E r \in Slots : TokenRefresh(r)
  \/ \E r \in Slots : TokenRefreshReply(r)
  \/ \E r \in Slots : Tokens(r)
  \/ \E r \in Slots : Proxy(r)
  \/ \E r \in Slots : ProxyReply(r)
  \/ \E r \in Slots : GvProbeReply(r)
  \/ \E r \in Slots : GvRefreshReply(r)
  \/ \E r \in Slots : Listings(r)
  \/ \E r \in Slots : DraftReply(r)
  \/ \E r \in Slots : DownloadReply(r)
  \/ \E r \in Slots : ImageReply(r)
  \/ \E r \in Slots : LoopNext(r)
  \/ \E r \in Slots : InventoryReply(r)
  \/ \E r \in Slots : VideoReply(r)

Spec == Init /\ [][Next]_vars

----------------------------------------------------------------------------
(* Validation specification: the full version with a stored access token    *)
(* receives POST /listings requests with the bodies of ValidationBodies     *)

InitValidation ==
  /\ version = "full"
  /\ videoExists \in BOOLEAN
  /\ tokenStore = [access_token |-> "a1", refresh_token |-> None]
  /\ pkceStore = [s \in States |-> None]
  /\ tmpFiles = {}
  /\ reqs = [r \in Slots |-> Idle]

\* the request of a behaviour arrives
ArriveListings(r) ==
  /\ reqs[r].pc = "idle"
  /\ \E b \in ValidationBodies :
       reqs' = [reqs EXCEPT ![r] =
         [Idle EXCEPT !.kind = "listings", !.q = [NoQuery EXCEPT !.body = b],
                      !.pc = "recv"]]
  /\ UNCHANGED <<version, videoExists, tokenStore, pkceStore, tmpFiles>>

NextValidation ==
  \/ \E r \in Slots : ArriveListings(r)
  \/ \E r \in Slots : Listings(r)
  \/ \E r \in Slots : GvProbeReply(r)
  \/ \E r \in Slots : DraftReply(r)
  \/ \E r \in Slots : InventoryReply(r)
  \/ \E r \in Slots : VideoReply(r)

ValidationSpec == InitValidation /\ [][NextValidation]_vars

----------------------------------------------------------------------------
(* Concurrent specification: the PKCE versions handle up to three requests  *)
(* at once; the steps of their handlers interleave at the awaits            *)

ConcSlots == {1, 2, 3}

\* the most requests of a behaviour on the route that probes the token
MaxProbing == 1

\* the routes that read or write the session map or the token store
ConcRoutes == {"login", "callback", "refresh", "me"}

\* the token file is empty or holds the record of an earlier run
InitConc ==
  /\ version \in {"pkce", "full"}
  /\ videoExists = FALSE
  /\ tokenStore \in {NoTokens, [access_token |-> "a1", refresh_token |-> "r1"]}
  /\ pkceStore = [s \in States |-> None]
  /\ tmpFiles = {}
  /\ reqs = [r \in ConcSlots |-> Idle]

\* the callbacks of the concurrent specification carry a code and a state
ConcQueries(kind) ==
  IF kind = "callback"
  THEN {q \in CallbackQueries : q.code /\ ~q.error /\ q.state # None}
  ELSE {NoQuery}

\* a request arrives while others are being handled; the slots are taken in
\* the order of arrival
ArriveConc(r) ==
  /\ reqs[r].pc = "idle"
  /\ \A r2 \in ConcSlots : r2 < r => reqs[r2].pc # "idle"
  /\ \E kind \in ConcRoutes : \E q \in ConcQueries(kind) :
       /\ kind = "me"
          => Cardinality({r2 \in ConcSlots : reqs[r2].kind = "me"}) < MaxProbing
       /\ reqs' = [reqs EXCEPT ![r] = [Idle EXCEPT !.kind = kind, !.q = q,
                                                   !.pc = "recv"]]
  /\ UNCHANGED <<version, videoExists, tokenStore, pkceStore, tmpFiles>>

NextConc ==
  \/ \E r \in ConcSlots : ArriveConc(r)
  \/ \E r \in ConcSlots : Login(r)
  \/ \E r \in ConcSlots : Callback(r)
  \/ \E r \in ConcSlots : CallbackReply(r)
  \/ \E r \in ConcSlots : TokenRefresh(r)
  \/ \E r \in ConcSlots : TokenRefreshReply(r)
  \/ \E r \in ConcSlots : Proxy(r)
  \/ \E r \in ConcSlots : ProxyReply(r)
  \/ \E r \in ConcSlots : GvProbeReply(r)
  \/ \E r \in ConcSlots : GvRefreshReply(r)

ConcSpec == InitConc /\ [][NextConc]_vars

----------------------------------------------------------------------------
(* Properties *)

PkceVersion == version \in {"pkce", "full"}
FullListings(rec) == version = "full" /\ rec.kind = "listings"

\* the upstream calls of a request that carry a bearer token to the Etsy API
\* after the token was obtained
ApiCalls(rec) ==
  {c \in rec.called : c.ep \in {"draft", "image", "inventory", "video"}}
CalledEp(rec, ep) == \E c \in rec.called : c.ep = ep

\* C1: in the PKCE versions, a callback with a code and a state the session
\* map has no entry for is answered 400, sends no token-exchange call, and
\* leaves the token record and the session map as they were
C1_UnknownStateRejected ==
  [][\A r \in Slots :
       (/\ PkceVersion
        /\ reqs[r].pc = "recv" /\ reqs[r].kind = "callback"
        /\ reqs[r].q.code /\ reqs[r].q.state # None
        /\ pkceStore[reqs[r].q.state] = None
        /\ reqs'[r] # reqs[r])
       => (/\ reqs'[r].pc = "done"
           /\ reqs'[r].status = 400
           /\ reqs'[r].called = {}
           /\ tokenStore' = tokenStore
           /\ pkceStore' = pkceStore)]_vars

\* a callback for a state without an entry was rejected while the session
\* map and the token store held something to lose
C1_Witness ==
  \E r \in Slots :
    /\ PkceVersion
    /\ reqs[r].kind = "callback" /\ reqs[r].pc = "done"
    /\ reqs[r].q.code /\ ~reqs[r].q.error /\ reqs[r].q.state # None
    /\ reqs[r].status = 400 /\ reqs[r].called = {}
    /\ tokenStore # NoTokens
    /\ \E s \in States : pkceStore[s] # None

\* C2: when the probe of getValidAccessToken reports an invalid or expired
\* token and a refresh token is stored, the refresh call is sent in the same
\* request; when it succeeds its record is in the token store before the
\* handler goes on, and every later call of that POST /listings carries the
\* new access token
C2_RefreshThenNewToken ==
  [][\A r \in Slots :
       /\ (/\ FullListings(reqs[r]) /\ reqs[r].gvpc = "probe"
           /\ reqs'[r].gvlast = 401
           /\ tokenStore.refresh_token # None)
          => (/\ reqs'[r].gvpc = "refresh" /\ reqs'[r].pc = "gv"
              /\ [ep |-> "token", tok |-> tokenStore.refresh_token]
                   \in reqs'[r].called
              /\ ApiCalls(reqs'[r]) = {})
       /\ (/\ FullListings(reqs[r]) /\ reqs[r].gvpc = "refresh"
           /\ reqs'[r].gvlast = OkStatus)
          => (/\ tokenStore' = reqs'[r].tokens
              /\ tokenStore' \in TokenResponses
              /\ reqs'[r].tok = tokenStore'.access_token
              /\ ApiCalls(reqs[r]) = {})
       /\ (FullListings(reqs'[r]) /\ reqs'[r].tokens # NoTokens)
          => \A c \in ApiCalls(reqs'[r]) :
               c.tok = reqs'[r].tokens.access_token]_vars

\* a POST /listings refreshed to a token other than the stored one and then
\* made the draft, image, inventory and video calls
C2_Witness ==
  \E r \in Slots :
    /\ FullListings(reqs[r]) /\ reqs[r].pc = "done" /\ reqs[r].status = 200
    /\ reqs[r].tokens # NoTokens
    /\ reqs[r].tokens.access_token # reqs[r].gvtok
    /\ \A ep \in {"draft", "image", "inventory", "video"} :
         CalledEp(reqs[r], ep)

\* C3: for an entry of image_files at most 3 uploads are attempted; another
\* attempt follows only the "being edited by another process" error and only
\* while fewer than 3 attempts were made; after the third such failure, or
\* the first failure of another kind, the function returns null and the loop
\* pushes no id for the entry; every step of the function ends it or counts
\* an attempt, so it terminates
C3_BoundedImageRetry ==
  [][\A r \in Slots :
       LET rec == reqs[r]
           nxt == reqs'[r] IN
       /\ nxt.pc \in {"download", "image", "uploaded"}
          => (/\ nxt.uploads <= 3 /\ nxt.attempt < 3
              /\ nxt.uploads <= nxt.attempt + 1)
       \* a step inside the function: it returns, or it is a retry
       /\ (rec.pc \in {"download", "image"} /\ nxt # rec)
          => \/ nxt.pc = "uploaded"
             \/ nxt.pc = "image" /\ rec.pc = "download"
                  /\ nxt.attempt = rec.attempt
             \/ /\ nxt.pc \in {"download", "image"}
                /\ nxt.attempt = rec.attempt + 1
                /\ nxt.outcome = "is being edited by another process"
                /\ rec.attempt + 1 < 3
       \* the function has returned
       /\ nxt.pc = "uploaded"
          => (/\ nxt.ret # 0 <=> nxt.outcome = "id"
              /\ nxt.ret # 0 => nxt.ret = nxt.i
              /\ nxt.outcome = "is being edited by another process"
                   => nxt.attempt = 2
              /\ nxt.outcome \notin {"id", "noid",
                                     "is being edited by another process"}
                   => nxt.ret = 0)
       \* the loop pushes the id the function returned, and nothing for null
       /\ rec.pc = "uploaded" /\ nxt # rec
          => nxt.ids = (IF rec.ret = 0 THEN rec.ids
                        ELSE Append(rec.ids, rec.i))]_vars

\* the third upload of an entry failed with the locked error and the
\* function returned null
C3_Witness ==
  \E r \in Slots :
    /\ reqs[r].pc = "uploaded" /\ reqs[r].uploads = 3
    /\ reqs[r].outcome = "is being edited by another process"
    /\ reqs[r].ret = 0

\* C4 (as claimed): an entry leaves the session map only in the step in which
\* a callback for its state succeeds, and after a callback whose token
\* exchange failed the entry is still there
C4_RemovedOnlyOnSuccess ==
  [][\A r \in Slots :
       /\ \A s \in States :
            (pkceStore[s] # None /\ pkceStore'[s] = None)
            => (/\ reqs'[r].kind = "callback" /\ reqs'[r].q.state = s
                /\ reqs'[r].pc = "done" /\ reqs'[r].status = 200)
       /\ (/\ PkceVersion /\ reqs'[r].kind = "callback"
           /\ reqs[r].pc = "exchange" /\ reqs'[r].pc = "done"
           /\ reqs'[r].caught # Pending)
          => pkceStore'[reqs'[r].q.state] # None]_vars

\* C4 (amended): an entry leaves the session map only in the step in which
\* a callback for its state, carrying a code and no error, finds it: that
\* step sends the token exchange with the entry's verifier, and from then
\* on, whatever the exchange answers, the entry is absent
C4_RemovedOnLookup ==
  [][\A r \in Slots :
       /\ \A s \in States :
            (pkceStore[s] # None /\ pkceStore'[s] = None)
            => (/\ reqs[r].kind = "callback" /\ reqs[r].pc = "recv"
                /\ reqs[r].q.state = s /\ reqs[r].q.code /\ ~reqs[r].q.error
                /\ reqs'[r].pc = "exchange"
                /\ reqs'[r].called = {[ep |-> "token", tok |-> pkceStore[s]]})
       /\ (PkceVersion /\ reqs'[r].kind = "callback"
             /\ reqs'[r].called # {})
          => pkceStore'[reqs'[r].q.state] = None]_vars

\* a callback whose token exchange failed has left no entry for its state
C4_Witness ==
  \E r \in Slots :
    /\ PkceVersion /\ reqs[r].kind = "callback" /\ reqs[r].pc = "done"
    /\ reqs[r].caught # Pending /\ reqs[r].status = 500
    /\ reqs[r].verifier # None
    /\ pkceStore[reqs[r].q.state] = None

\* C5: when the probe reports an invalid or expired token and no refresh
\* token is stored, POST /listings sends no draft-creation call and, once
\* the handler is through, the client has an error response
C5_NoRefreshTokenAnswered ==
  \A r \in Slots :
    (/\ FullListings(reqs[r]) /\ Finished(reqs[r])
     /\ reqs[r].gvlast = 401 /\ ~CalledEp(reqs[r], "token"))
    => (~CalledEp(reqs[r], "draft") /\ reqs[r].status >= 400)

AuthRoutes ==
  {"listings", "me", "return_policies", "shops_listings", "shipping_profiles"}

\* C6: a request to a route that requires authorization, handled while the
\* token store holds no access token, is answered 401 and makes no upstream
\* call
C6_NoTokenNoUpstream ==
  [][\A r \in Slots :
       (/\ reqs[r].pc = "recv" /\ reqs[r].kind \in AuthRoutes
        /\ tokenStore.access_token = None
        /\ reqs'[r] # reqs[r])
       => (reqs'[r].status = 401 /\ reqs'[r].called = {})]_vars

\* C7 (as claimed): whenever the catch block of a handler answers an
\* upstream failure, the client receives the upstream status, or 500 when
\* the failure had no HTTP response
C7_StatusPassthrough ==
  \A r \in Slots :
    (reqs[r].pc = "done" /\ reqs[r].caught # Pending)
    => reqs[r].status = (IF reqs[r].caught = NoResp THEN 500
                         ELSE reqs[r].caught)

\* C7 (amended): the draft-creation call of /listings, /shops/listings,
\* /shops/shipping-profiles, and /me of the pkce version relay the upstream
\* status (500 without a response); /auth/callback, /token/refresh and the
\* seller-taxonomy route answer 500 whatever the upstream status; /me and
\* /return-policies of the full version relay it unless their unawaited
\* getValidAccessToken has already answered 401
C7_StatusRelay ==
  \A r \in Slots :
    LET rec == reqs[r]
        relayed == IF rec.caught = NoResp THEN 500 ELSE rec.caught IN
    (rec.pc = "done" /\ rec.caught # Pending)
    => /\ rec.kind \in {"callback", "refresh", "taxonomy"}
          => rec.status = 500 /\ rec.sends = 1
       /\ rec.kind \in {"listings", "shops_listings", "shipping_profiles"}
          => rec.status = relayed /\ rec.sends = 1
       /\ rec.kind \in {"me", "return_policies"}
          => \/ rec.status = relayed
             \/ version = "full" /\ rec.status = 401 /\ rec.sends > 1

\* the token exchange failed with an upstream status other than 500 and the
\* client got 500
C7_Witness ==
  \E r \in Slots :
    /\ reqs[r].kind = "callback" /\ reqs[r].pc = "done"
    /\ reqs[r].caught \in ErrStatuses /\ reqs[r].caught # 500
    /\ reqs[r].status = 500

\* what the success response of POST /listings holds for each sub-step, and
\* what it holds for a sub-step that was not attempted
ResponseField(rec, step) ==
  CASE step = "image" -> rec.ids # <<>>
    [] step = "inventory" -> rec.inventory # "null"
    [] OTHER -> rec.video # "null"

\* C8 (as claimed): once the draft call succeeded the response is the
\* success response, and every failed sub-step left in it something a
\* sub-step not attempted does not leave
C8_SubStepFailuresRecorded ==
  \A r \in Slots :
    (FullListings(reqs[r]) /\ reqs[r].pc = "done"
       /\ reqs[r].listing # "none")
    => /\ reqs[r].status = 200
       /\ \A step \in reqs[r].failed : ResponseField(reqs[r], step)

\* C8 (amended): once the draft call succeeded the response is the success
\* response, sent once; a failed video upload is recorded in it as an error,
\* a failed inventory update leaves inventory null and makes no video call,
\* a failed image upload leaves its id out of listing_images_id
C8_SubStepFailuresSwallowed ==
  \A r \in Slots :
    LET rec == reqs[r] IN
    (FullListings(rec) /\ rec.pc = "done" /\ rec.listing # "none")
    => /\ rec.status = 200 /\ rec.sends = 1 /\ ~rec.unhandled
       /\ "video" \in rec.failed <=> rec.video = "error"
       /\ "inventory" \in rec.failed
          => (/\ rec.inventory = "null" /\ rec.video = "null"
              /\ ~CalledEp(rec, "video"))
       /\ "image" \in rec.failed
          => Len(rec.ids) < Len(rec.q.body.image_files)

\* an image upload and the inventory update failed, and the answer is 200
C8_Witness ==
  \E r \in Slots :
    /\ FullListings(reqs[r]) /\ reqs[r].pc = "done"
    /\ reqs[r].failed = {"image", "inventory"}
    /\ reqs[r].status = 200 /\ reqs[r].inventory = "null"

\* C9 (as claimed): when the draft has a listing_id and video.mp4 exists,
\* the video upload call is made, also when the inventory update failed
C9_VideoAlwaysUploaded ==
  \A r \in Slots :
    (/\ FullListings(reqs[r]) /\ reqs[r].pc = "done"
     /\ reqs[r].listing = "id" /\ videoExists)
    => CalledEp(reqs[r], "video")

\* C9 (amended): the video upload call is made exactly when the draft has a
\* listing_id, video.mp4 exists and the inventory update succeeded; it is
\* sent in the step that receives the inventory answer, after the images
C9_VideoAfterInventorySuccess ==
  [][\A r \in Slots :
       LET rec == reqs[r]
           nxt == reqs'[r] IN
       /\ (FullListings(nxt) /\ CalledEp(nxt, "video")
             /\ ~(rec.kind = nxt.kind /\ CalledEp(rec, "video")))
          => (/\ rec.pc = "inventory" /\ nxt.pc = "video"
              /\ nxt.inventory = "data" /\ nxt.listing = "id"
              /\ videoExists)
       /\ (FullListings(nxt) /\ nxt.pc = "done" /\ nxt.listing # "none")
          => (CalledEp(nxt, "video")
                <=> (/\ nxt.listing = "id" /\ videoExists
                     /\ nxt.inventory = "data"))]_vars

\* video.mp4 exists, the draft has an id, the inventory update failed, and
\* the request ended without a video call
C9_Witness ==
  \E r \in Slots :
    /\ FullListings(reqs[r]) /\ reqs[r].pc = "done"
    /\ reqs[r].listing = "id" /\ videoExists
    /\ "inventory" \in reqs[r].failed
    /\ ~CalledEp(reqs[r], "video") /\ reqs[r].status = 200

\* C10: the temp files uploadImageWithRetry wrote are gone when it returns,
\* and when it retries
C10_TempFilesDeleted ==
  \A r \in Slots :
    /\ reqs[r].pc = "uploaded" => reqs[r].written \cap tmpFiles = {}
    /\ reqs[r].pc = "download" => reqs[r].written \cap tmpFiles = {}
    /\ reqs[r].pc \notin {"download", "image", "uploaded"}
         => reqs[r].written = {}

\* the function returned after three locked uploads of a downloaded image
C10_Witness ==
  \E r \in Slots :
    /\ reqs[r].pc = "uploaded" /\ reqs[r].written # {}
    /\ reqs[r].uploads = 3
    /\ reqs[r].outcome = "is being edited by another process"

\* the upstream calls of the handler that are awaiting their answer: the
\* handler is at the await of at most one, for image uploads that of entry i
InFlight(rec) ==
  IF rec.pc \in {"draft", "download", "image", "inventory", "video"}
  THEN {[ep |-> rec.pc, i |-> rec.i]}
  ELSE {}

\* C11: in a POST /listings the draft call is the first call; the uploads of
\* image_files follow, one entry at a time in list order, an entry (retries
\* included) begun only after the function has returned for the entry before
\* it; the inventory update is sent after the last entry has returned, and
\* the video upload after the inventory update; at most one call is in flight
C11_PipelineOrder ==
  [][\A r \in Slots :
       LET rec == reqs[r]
           nxt == reqs'[r]
           n == Len(nxt.q.body.image_files) IN
       (FullListings(nxt) /\ nxt # rec)
       => /\ (nxt.pc = "draft" /\ rec.pc # "draft")
             => ApiCalls(rec) = {} /\ nxt.i = 0
          /\ nxt.pc \in {"download", "image"}
             => (/\ CalledEp(rec, "draft") /\ nxt.listing = "id"
                 /\ ~CalledEp(nxt, "inventory") /\ ~CalledEp(nxt, "video")
                 /\ nxt.i \in 1..n
                 /\ Len(nxt.ids) < nxt.i
                 /\ \/ rec.pc = "draft" /\ nxt.i = 1 /\ nxt.attempt = 0
                    \/ rec.pc = "uploaded" /\ nxt.i = rec.i + 1
                         /\ nxt.attempt = 0
                    \/ rec.pc \in {"download", "image"} /\ nxt.i = rec.i)
          /\ (nxt.pc = "inventory")
             => (/\ ~CalledEp(rec, "inventory") /\ ~CalledEp(rec, "video")
                 /\ \/ rec.pc = "draft" /\ n = 0
                    \/ rec.pc = "uploaded" /\ n > 0 /\ rec.i = n)
          /\ (nxt.pc = "video")
             => (rec.pc = "inventory" /\ ~CalledEp(rec, "video"))
          /\ Cardinality(InFlight(nxt)) <= 1
          /\ \A c \in InFlight(nxt) : c.ep \in {"download", "image"}
                                         => c.i = nxt.i]_vars

\* both entries of a two-image list were downloaded and uploaded, the
\* inventory was updated, and the video upload is in flight
C11_Witness ==
  \E r \in Slots :
    /\ FullListings(reqs[r]) /\ reqs[r].pc = "video"
    /\ reqs[r].ids = <<1, 2>>
    /\ \A ep \in {"draft", "download", "image", "inventory", "video"} :
         CalledEp(reqs[r], ep)

\* POST /listings of the full version has obtained its token: the
\* validation has run
Validated(rec) == FullListings(rec) /\ rec.tok # None

Listed(rec) == {rec.errors[k] : k \in 1..Len(rec.errors)}

DimensionMessage(f) ==
  CASE f = "item_weight" -> "item_weight must be a positive number if set"
    [] f = "item_length" -> "item_length must be a positive number if set"
    [] f = "item_width" -> "item_width must be a positive number if set"
    [] OTHER -> "item_height must be a positive number if set"

\* the dimension fields of a body that are set to something other than a
\* positive number
BadDimensions(b) ==
  {f \in DimensionFields : b[f] \in {"nonpos", "nonnum"}}

\* the accepted values of when_made
AcceptedWhenMade ==
  {"made_to_order", "2020_2024", "2010_2019", "2006_2009", "before_2006",
   "2000_2005", "1990s", "1980s", "1970s", "1960s", "1950s", "1940s",
   "1930s", "1920s", "1910s", "1900s", "1800s", "1700s", "before_1700"}

\* the rules a body violates, each by its message
ViolatedRules(b) ==
  {m \in {"title is required"} : b.title \in {"undef", "blank"}}
  \cup {m \in {"description is required"} :
          b.description \in {"undef", "blank"}}
  \cup {m \in {"price must be a positive number"} : b.price # "pos"}
  \cup {m \in {"quantity must be a positive integer"} :
          b.quantity # "posint"}
  \cup {m \in {"who_made must be one of: i_did, someone_else, collective"} :
          b.who_made \notin {"i_did", "someone_else", "collective"}}
  \cup {m \in {"Invalid when_made value"} :
          b.when_made \notin AcceptedWhenMade}
  \cup {m \in {"Sku required"} : b.sku = "undef"}
  \cup {m \in {"taxonomy_id must be a positive integer"} :
          b.taxonomy_id # "pos"}
  \cup {m \in {"type must be one of: physical, download, both"} :
          b.type \notin {"undef", "physical", "download", "both"}}
  \cup {m \in {"item_weight_unit must be one of: oz, lb, g, kg"} :
          b.item_weight_unit \notin {"undef", "oz", "lb", "g", "kg"}}
  \cup {DimensionMessage(f) :
          f \in IF b.type = "physical" THEN BadDimensions(b) ELSE {}}

\* C12: a body that violates several rules is answered 400 with exactly one
\* entry of the errors list for every violated rule (a body without title
\* and without description lists both), and no draft call is sent
C12_AllViolationsListed ==
  \A r \in Slots :
    LET rec == reqs[r]
        b == rec.q.body IN
    (Validated(rec) /\ Cardinality(ViolatedRules(b)) >= 2)
    => /\ rec.pc = "done" /\ rec.status = 400 /\ rec.sends = 1
       /\ Listed(rec) = ViolatedRules(b)
       /\ Len(rec.errors) = Cardinality(ViolatedRules(b))
       /\ ~CalledEp(rec, "draft")
       /\ (b.title # "text" /\ b.description # "text")
          => {"title is required", "description is required"}
               \subseteq Listed(rec)

\* a body without title, with a blank description and an invalid when_made
\* was answered 400 with three errors
C12_Witness ==
  \E r \in Slots :
    /\ Validated(reqs[r]) /\ reqs[r].status = 400
    /\ reqs[r].q.body.title = "undef"
    /\ reqs[r].q.body.description = "blank"
    /\ Len(reqs[r].errors) = 3
    /\ "Invalid when_made value" \in Listed(reqs[r])

\* C13: a dimension that is set and is not a positive number is rejected
\* when type is "physical"; for any other type, or without type, it causes no
\* error (the request is rejected only for another rule), and no dimension
\* is in the draft payload
C13_DimensionsOnlyForPhysical ==
  \A r \in Slots :
    LET rec == reqs[r]
        b == rec.q.body
        dimensionErrors == {DimensionMessage(f) : f \in DimensionFields} IN
    (Validated(rec) /\ BadDimensions(b) # {})
    => /\ b.type = "physical"
          => (/\ rec.pc = "done" /\ rec.status = 400
              /\ ~CalledEp(rec, "draft")
              /\ Listed(rec) \cap dimensionErrors
                   = {DimensionMessage(f) : f \in BadDimensions(b)})
       /\ b.type # "physical"
          => (/\ Listed(rec) \cap dimensionErrors = {}
              /\ Listed(rec) = ViolatedRules(b)
              /\ ViolatedRules(b) = {} => CalledEp(rec, "draft")
              /\ \A f \in DimensionFields : rec.payload[f] = "undef")

\* a download listing with a non-positive weight and a non-numeric length
\* passed the validation and its draft call was sent
C13_Witness ==
  \E r \in Slots :
    /\ Validated(reqs[r]) /\ reqs[r].pc = "draft"
    /\ reqs[r].q.body.type = "download"
    /\ reqs[r].q.body.item_weight = "nonpos"
    /\ reqs[r].q.body.item_length = "nonpos"
    /\ reqs[r].q.body.item_weight_unit = "oz"

\* C14: a body without when_made, or with a value outside the enumeration,
\* is answered 400 with the "Invalid when_made value" error and no draft
\* call; a body with an accepted value never gets that error
C14_WhenMadeEnumeration ==
  \A r \in Slots :
    LET rec == reqs[r]
        b == rec.q.body IN
    Validated(rec)
    => /\ b.when_made \notin AcceptedWhenMade
          => (/\ rec.pc = "done" /\ rec.status = 400
              /\ "Invalid when_made value" \in Listed(rec)
              /\ ~CalledEp(rec, "draft"))
       /\ b.when_made \in AcceptedWhenMade
          => "Invalid when_made value" \notin Listed(rec)

\* the only violation of a body was its when_made "2020_2023", and it was
\* answered 400
C14_Witness ==
  \E r \in Slots :
    /\ Validated(reqs[r]) /\ reqs[r].status = 400
    /\ reqs[r].q.body.when_made = "2020_2023"
    /\ reqs[r].errors = <<"Invalid when_made value">>

\* the step of request r is the success path of a token exchange or of a
\* refresh: the upstream token endpoint answered with a record
TokenSuccess(rec, nxt) ==
  \/ /\ rec.pc \in {"exchange", "refresh"} /\ nxt.pc = "done"
     /\ nxt.caught = Pending
  \/ rec.gvpc = "refresh" /\ nxt.gvpc = "done" /\ nxt.gvlast = OkStatus

\* C15: the stored token record changes only in a step in which a token
\* exchange or a refresh (of /token/refresh or of getValidAccessToken)
\* succeeds, and after such a step it is the record the upstream returned;
\* every other step, a failed exchange or refresh included, leaves it as it
\* was
C15_TokenStoreFrame ==
  [][/\ tokenStore' # tokenStore
        => \E r \in Slots : TokenSuccess(reqs[r], reqs'[r])
     /\ \A r \in Slots :
          TokenSuccess(reqs[r], reqs'[r])
          => (/\ reqs'[r].tokens \in TokenResponses
              /\ tokenStore' = reqs'[r].tokens)
     /\ \A r \in Slots :
          (/\ reqs[r].pc \in {"exchange", "refresh"}
                 \/ reqs[r].gvpc = "refresh"
           /\ reqs'[r] # reqs[r]
           /\ ~TokenSuccess(reqs[r], reqs'[r]))
          => tokenStore' = tokenStore]_vars

\* /token/refresh succeeded with a record that has no refresh token, and
\* the store, which held a refresh token, holds that record
C15_Witness ==
  \E r \in Slots :
    /\ reqs[r].kind = "refresh" /\ reqs[r].pc = "done"
    /\ reqs[r].status = 200
    /\ reqs[r].tokens.refresh_token = None
    /\ tokenStore = reqs[r].tokens

\* the upstream calls that carry `Authorization: Bearer ${access_token}`
BearerEndpoints ==
  {"probe", "draft", "image", "inventory", "video", "me", "return_policies",
   "shops_listings", "shipping_profiles"}

\* C16: every call of a request to the Etsy API carries as its bearer an
\* access token the request read from the token store or obtained by its
\* refresh
C16_BearerFromStore ==
  \A r \in Slots : \A c \in reqs[r].called :
    c.ep \in BearerEndpoints
    => /\ c.tok \in AccessTokens
       /\ c.tok \in {reqs[r].gvtok, reqs[r].tok,
                      reqs[r].tokens.access_token}

\* C17: however the requests that write tokens interleave, the token store
\* holds nothing or one complete record that a single token answer carried;
\* every successful token answer replaces the stored record by its own,
\* whatever was written before, so the store holds the record of the write
\* that happened last; no other step changes it
C17_LastWriterWins ==
  [][/\ tokenStore' \in {NoTokens} \cup TokenResponses
     /\ tokenStore' # tokenStore
        => \E r \in ConcSlots :
             /\ TokenSuccess(reqs[r], reqs'[r])
             /\ tokenStore' = reqs'[r].tokens
     /\ \A r \in ConcSlots :
          TokenSuccess(reqs[r], reqs'[r]) => tokenStore' = reqs'[r].tokens
     /\ \A r \in ConcSlots :
          (~TokenSuccess(reqs[r], reqs'[r]) /\ reqs'[r] # reqs[r])
          => tokenStore' = tokenStore]_vars

\* a /token/refresh and the automatic refresh of a /me request were in flight
\* together (each had read the refresh token the other's answer removed),
\* both succeeded with different records, and the store holds one of them
C17_Witness ==
  \E r1, r2 \in ConcSlots :
    /\ r1 # r2
    /\ \A r \in ConcSlots \ {r1, r2} : reqs[r].pc = "idle"
    /\ reqs[r1].kind = "refresh" /\ reqs[r2].kind = "me"
    /\ Finished(reqs[r1]) /\ Finished(reqs[r2])
    /\ \A r \in {r1, r2} :
         /\ [ep |-> "token", tok |-> "r1"] \in reqs[r].called
         /\ reqs[r].tokens \in TokenResponses
         /\ reqs[r].tokens.refresh_token = None
    /\ reqs[r1].tokens # reqs[r2].tokens
    /\ tokenStore = reqs[r1].tokens

\* C18: a login stores the verifier it generated under the state it issued
\* and puts the challenge derived from that verifier in its redirect; the
\* token exchange of a callback with state s carries the verifier stored
\* under s, which is the verifier of a login that issued s; the entry of s is
\* changed by no request other than a login that issues s and a callback
\* that presents s
C18_VerifierOfState ==
  [][\A r \in ConcSlots :
       LET rec == reqs[r]
           nxt == reqs'[r] IN
       /\ (rec.kind = "login" /\ rec.pc = "recv" /\ nxt.pc = "done")
          => (/\ nxt.verifier \in Verifiers
              /\ nxt.challenge = generateCodeChallenge(nxt.verifier)
              /\ pkceStore'[nxt.q.state] = nxt.verifier
              /\ \A s \in States \ {nxt.q.state} :
                   pkceStore'[s] = pkceStore[s])
       /\ (rec.kind = "callback" /\ rec.pc = "recv" /\ nxt.pc = "exchange")
          => (/\ nxt.called = {[ep |-> "token", tok |-> pkceStore[rec.q.state]]}
              /\ nxt.verifier = pkceStore[rec.q.state]
              /\ \E l \in ConcSlots :
                   /\ reqs[l].kind = "login" /\ reqs[l].pc = "done"
                   /\ reqs[l].q.state = rec.q.state
                   /\ reqs[l].verifier = nxt.verifier
                   /\ reqs[l].challenge = generateCodeChallenge(nxt.verifier)
              /\ \A s \in States \ {rec.q.state} :
                   pkceStore'[s] = pkceStore[s])
       /\ (nxt # rec /\ ~(rec.kind \in {"login", "callback"}
                            /\ rec.pc = "recv"))
          => pkceStore' = pkceStore]_vars

\* logins issued s1 and s2 with different verifiers, and the exchange of a
\* callback for s1 is in flight with the verifier of the login for s1
C18_Witness ==
  \E l1, l2, c \in ConcSlots :
    /\ reqs[l1].kind = "login" /\ reqs[l1].pc = "done"
    /\ reqs[l2].kind = "login" /\ reqs[l2].pc = "done"
    /\ reqs[l1].q.state = "s1" /\ reqs[l2].q.state = "s2"
    /\ reqs[l1].verifier # reqs[l2].verifier
    /\ reqs[c].kind = "callback" /\ reqs[c].pc = "exchange"
    /\ reqs[c].q.state = "s1"
    /\ [ep |-> "token", tok |-> reqs[l1].verifier] \in reqs[c].called
    /\ pkceStore["s2"] = reqs[l2].verifier

\* C19: when the probe of getValidAccessToken fails for another reason than
\* an invalid or expired token, POST /listings answers the client with the
\* upstream status (500 without one): the request is not left unanswered
C19_ProbeFailureRelayed ==
  \A r \in Slots :
    LET rec == reqs[r] IN
    (/\ FullListings(rec) /\ Finished(rec)
     /\ rec.gvlast \in ErrStatuses \cup {NoResp}
     /\ ~CalledEp(rec, "token"))
    => /\ rec.status = (IF rec.gvlast = NoResp THEN 500 ELSE rec.gvlast)
       /\ ~rec.unhandled

\* C20: when the draft call of POST /listings fails, no download, image
\* upload, inventory update or video upload is sent for the request, and
\* the one response is the error response with the upstream status (500
\* without one)
C20_DraftFailureStops ==
  \A r \in Slots :
    LET rec == reqs[r] IN
    (rec.kind = "listings" /\ rec.caught # Pending)
    => /\ rec.pc = "done"
       /\ rec.status = (IF rec.caught = NoResp THEN 500 ELSE rec.caught)
       /\ rec.status # 200 /\ rec.sends = 1
       /\ \A c \in rec.called : c.ep \in {"probe", "token", "draft"}
       /\ rec.listing = "none" /\ rec.ids = <<>>
       /\ rec.inventory = "null" /\ rec.video = "null"

\* the draft call of a request with two images failed with 404 while
\* video.mp4 exists: the client got 404 and nothing else was sent
C20_Witness ==
  \E r \in Slots :
    /\ FullListings(reqs[r]) /\ reqs[r].pc = "done"
    /\ reqs[r].caught = 404 /\ reqs[r].status = 404
    /\ Len(reqs[r].q.body.image_files) = 2 /\ videoExists
    /\ CalledEp(reqs[r], "draft") /\ ~CalledEp(reqs[r], "image")

\* C21: a request gets at most one response: once a response has been sent
\* the request sends no upstream call and makes no further attempt to send,
\* and the step that sends a response sends no upstream call
C21_OneResponse ==
  [][\A r \in Slots :
       LET rec == reqs[r]
           nxt == reqs'[r] IN
       (nxt # rec /\ nxt.pc # "recv")
       => /\ nxt.sends <= 1
          /\ nxt.status # rec.status => nxt.called = rec.called
          /\ rec.status # 0
             => (nxt.called = rec.called /\ nxt.sends = rec.sends)]_vars

\* the callbacks for state s that sent a token exchange, and the logins that
\* issued s
Exchanged(s) ==
  {c \in ConcSlots : /\ reqs[c].kind = "callback" /\ reqs[c].q.state = s
                      /\ reqs[c].called # {}}
Issued(s) ==
  {l \in ConcSlots : /\ reqs[l].kind = "login" /\ reqs[l].pc = "done"
                      /\ reqs[l].q.state = s}

\* C22: for every state no more token exchanges are sent than logins issued
\* it, so after one login at most one, however the callbacks interleave; the
\* callback that looks the state up first takes the entry and is exchanged,
\* and a callback that finds no entry is rejected with 400 without a call
C22_OneExchangePerState ==
  [][\A r \in ConcSlots :
       LET rec == reqs[r]
           nxt == reqs'[r] IN
       /\ \A s \in States :
            Cardinality(Exchanged(s))' <= Cardinality(Issued(s))'
       /\ (rec.kind = "callback" /\ rec.pc = "recv" /\ nxt # rec)
          => IF pkceStore[rec.q.state] # None
             THEN /\ nxt.pc = "exchange"
                  /\ nxt.called =
                       {[ep |-> "token", tok |-> pkceStore[rec.q.state]]}
                  /\ pkceStore'[rec.q.state] = None
             ELSE /\ nxt.pc = "done" /\ nxt.status = 400
                  /\ nxt.called = {}]_vars

\* one login issued s1; of two callbacks presenting s1, one is waiting for
\* its token exchange and the other, handled meanwhile, was rejected with 400
C22_Witness ==
  \E l, c1, c2 \in ConcSlots :
    /\ reqs[l].kind = "login" /\ reqs[l].q.state = "s1"
    /\ reqs[c1].kind = "callback" /\ reqs[c1].q.state = "s1"
    /\ reqs[c1].pc = "exchange"
    /\ reqs[c1].called = {[ep |-> "token", tok |-> reqs[l].verifier]}
    /\ reqs[c2].kind = "callback" /\ reqs[c2].q.state = "s1"
    /\ reqs[c2].pc = "done" /\ reqs[c2].status = 400
    /\ reqs[c2].called = {}

====
